---- MODULE Spec2Model ----
(***************************************************************************)
(* Verification model of the policy-reference scraping scripts:            *)
(*   extract_failed_urls.py  categorize_error                              *)
(*   scraping_audit.py       canonicalize_url                              *)
(*   retry_failed_urls.py / retry_failed_urls_simple.py  the retry loop    *)
(*   scrape_policy_refs.py   the first-pass scraper loop                   *)
(* Text is modelled as a sequence of words (error messages) or of          *)
(* characters (URLs); "x in s" of Python is a contiguous sub-sequence.     *)
(***************************************************************************)
EXTENDS Integers, Sequences, FiniteSets, TLC

VARIABLES
    \* extract_failed_urls.py
    errMsg,             \* the error message handed to categorize_error
    category,           \* record['error_category'], its result
    nPhrases,           \* number of phrases errMsg is made of
    \* scraping_audit.py
    urlA, urlB,         \* two URLs of url_list, as their components
    edits,              \* number of differences introduced between them
    canonA, canonB,     \* canonicalize_url of each, as a string
    \* retry_failed_urls.py / retry_failed_urls_simple.py
    script,             \* which of the two scripts runs
    csv,                \* FAILED_CSV on disk
    pc,                 \* where main is
    run,                \* how many times the script has been started
    df,                 \* the dataframe, with the retry_* columns
    pos,                \* rows of df the loop is through with
    success_count,
    error_count,
    call,               \* the running call of download_pdf / scrape_html
    result,             \* (filetype, error) returned by retry_url
    SELENIUM_DOMAINS,
    outCsv,             \* OUTPUT_CSV on disk (<<>>: no such file)
    files,              \* the files of OUTPUT_DIR
    gets,               \* history: cloudscraper GETs of the current retry_url call
    sels,               \* history: Selenium fetches of the current retry_url call
    lastGet,            \* history: what the GET of the last call did
    lastOut,            \* history: how the last call ended
    badGet,             \* history: domains with a GET of this run that failed or was challenged
    writes,             \* history: the row counts at which OUTPUT_CSV was written in this run
    handled,            \* history: the rows given to retry_url in this run, in order
    prior,              \* history: OUTPUT_CSV as this run found it when it started
    \* scrape_policy_refs.py
    policies,           \* INPUT_CSV
    spc,                \* where the script is
    at,                 \* (row, reference column number) the loops are at
    refResults,         \* the ref{i}_type / ref{i}_error columns
    sHandled,           \* history: the (row, column number) pairs given to process_url
    policiesOut,        \* OUTPUT_CSV of the scraper (<<>>: not written)
    \* extract_failed_urls.py
    failed_urls,        \* the failed URL records, in the order extract_failed_urls found them
    epc,                \* where main is
    analyzed,           \* records analyze_failed_urls has gone through
    retry_script,       \* the generated retry script: whether written, and its RETRY_URLS
    \* analyze_urls.py
    apc,                \* where analyze_references is
    error_analysis,     \* results['error_analysis']: error column name -> value counts
    \* asdfhjhjh.py
    corpus,             \* the files of CORPUS_FOLDER, in the order glob yields them
    cpc,                \* where the script is
    nread,              \* files the load loop has gone through
    texts,              \* texts
    read_pdf_def,       \* which definition the name read_pdf is bound to
    bad_files           \* bad_files ("undefined" before line 56 has run)

catVars == <<errMsg, category, nPhrases>>
canonVars == <<urlA, urlB, edits, canonA, canonB>>
retryVars ==
    <<script, csv, pc, run, df, pos, success_count, error_count, call, result,
      SELENIUM_DOMAINS, outCsv, files, gets, sels, lastGet, lastOut, badGet,
      writes, handled, prior>>
scrapeVars == <<policies, spc, at, refResults, sHandled, policiesOut>>
extractVars == <<failed_urls, epc, analyzed, retry_script>>
analyzeVars == <<apc, error_analysis>>
corpusVars == <<corpus, cpc, nread, texts, read_pdf_def, bad_files>>
vars == <<catVars, canonVars, retryVars, scrapeVars, extractVars, analyzeVars, corpusVars>>

(***************************************************************************)
(* Text helpers                                                            *)
(***************************************************************************)

\* str.lower() on one word / character: the pairs with an upper-case form.
CasePairs ==
    { <<"Forbidden", "forbidden">>, <<"SSL", "ssl">>, <<"Read", "read">>,
      <<"Connection", "connection">>, <<"Timeout", "timeout">>,
      <<"Client", "client">>, <<"Error", "error">>, <<"Not", "not">>,
      <<"Found", "found">>, <<"Unauthorized", "unauthorized">>,
      <<"Content", "content">>, <<"Server", "server">>,
      <<"Service", "service">>, <<"Unavailable", "unavailable">>,
      <<"Internal", "internal">>, <<"Permission", "permission">>,
      <<"ERR", "err">>, <<"BLOCKED", "blocked">>, <<"BY", "by">>,
      <<"CLIENT", "client">>, <<"No", "no">>, <<"URL", "url">>,
      <<"A", "a">>, <<"W", "w">>, <<"H", "h">>, <<"P", "p">>, <<"Q", "q">>,
      <<"D", "d">>, <<"F", "f">>, <<"N", "n">> }

LowerTok(t) ==
    IF \E p \in CasePairs : p[1] = t
    THEN (CHOOSE p \in CasePairs : p[1] = t)[2]
    ELSE t

\* str.lower()
Lower(s) == [i \in DOMAIN s |-> LowerTok(s[i])]

\* kw in s
Contains(s, kw) ==
    \E i \in 1..(Len(s) - Len(kw) + 1) : SubSeq(s, i, i + Len(kw) - 1) = kw

(***************************************************************************)
(* extract_failed_urls.py : categorize_error                               *)
(***************************************************************************)

categorize_error_swapped(error_msg) ==
    LET error_lower == Lower(error_msg)
        has(kw) == Contains(error_lower, kw)
    IN  IF has(<<"404">>) \/ has(<<"not", "found">>) THEN "404_Not_Found"
        ELSE IF has(<<"403">>) \/ has(<<"forbidden">>) THEN "403_Forbidden"
        ELSE IF has(<<"401">>) \/ has(<<"unauthorized">>) THEN "401_Unauthorized"
        ELSE IF has(<<"500">>) \/ has(<<"internal", "server", "error">>) THEN "500_Server_Error"
        ELSE IF has(<<"502">>) \/ has(<<"bad", "gateway">>) THEN "502_Bad_Gateway"
        ELSE IF has(<<"503">>) \/ has(<<"service", "unavailable">>) THEN "503_Service_Unavailable"
        ELSE IF has(<<"timeout">>) \/ has(<<"timed", "out">>) THEN "Timeout"
        ELSE IF has(<<"connection">>) THEN "Connection_Error"
        ELSE IF has(<<"connection">>) /\ has(<<"refused">>) THEN "Connection_Refused"
        ELSE IF has(<<"ssl">>) \/ has(<<"certificate">>) THEN "SSL_Certificate_Error"
        ELSE IF has(<<"redirect">>) /\ has(<<"too", "many">>) THEN "Too_Many_Redirects"
        ELSE IF has(<<"dns">>) \/ has(<<"name", "resolution">>) THEN "DNS_Error"
        ELSE IF has(<<"max", "retries">>) THEN "Max_Retries_Exceeded"
        ELSE IF has(<<"read", "timed", "out">>) THEN "Read_Timeout"
        ELSE "Other_Error"

categorize_error(error_msg) ==
    LET error_lower == Lower(error_msg)
        has(kw) == Contains(error_lower, kw)
    IN  IF has(<<"404">>) \/ has(<<"not", "found">>) THEN "404_Not_Found"
        ELSE IF has(<<"403">>) \/ has(<<"forbidden">>) THEN "403_Forbidden"
        ELSE IF has(<<"401">>) \/ has(<<"unauthorized">>) THEN "401_Unauthorized"
        ELSE IF has(<<"500">>) \/ has(<<"internal", "server", "error">>) THEN "500_Server_Error"
        ELSE IF has(<<"502">>) \/ has(<<"bad", "gateway">>) THEN "502_Bad_Gateway"
        ELSE IF has(<<"503">>) \/ has(<<"service", "unavailable">>) THEN "503_Service_Unavailable"
        ELSE IF has(<<"timeout">>) \/ has(<<"timed", "out">>) THEN "Timeout"
        ELSE IF has(<<"connection">>) /\ has(<<"refused">>) THEN "Connection_Refused"
        ELSE IF has(<<"connection">>) THEN "Connection_Error"
        ELSE IF has(<<"ssl">>) \/ has(<<"certificate">>) THEN "SSL_Certificate_Error"
        ELSE IF has(<<"redirect">>) /\ has(<<"too", "many">>) THEN "Too_Many_Redirects"
        ELSE IF has(<<"dns">>) \/ has(<<"name", "resolution">>) THEN "DNS_Error"
        ELSE IF has(<<"max", "retries">>) THEN "Max_Retries_Exceeded"
        ELSE IF has(<<"read", "timed", "out">>) THEN "Read_Timeout"
        ELSE "Other_Error"

\* The pieces error messages are put together from: every keyword of
\* categorize_error, some capitalised forms, and neutral words.
MsgPhrases ==
    { <<"404">>, <<"Not", "Found">>, <<"403">>, <<"Forbidden">>, <<"401">>,
      <<"unauthorized">>, <<"500">>, <<"Internal", "Server", "Error">>,
      <<"502">>, <<"bad", "gateway">>, <<"503">>, <<"Service", "Unavailable">>,
      <<"Timeout">>, <<"timed", "out">>, <<"Connection">>, <<"refused">>,
      <<"SSL">>, <<"certificate">>, <<"redirect">>, <<"too", "many">>,
      <<"dns">>, <<"name", "resolution">>, <<"max", "retries">>, <<"Read">>,
      <<"Error">>, <<"out">> }

\* Number of phrases in an error message handed to categorize_error.
MaxPhrases == 3

CatIdle == errMsg = <<>> /\ category = "idle" /\ nPhrases = 0

CatInit == errMsg = <<>> /\ category = categorize_error(<<>>) /\ nPhrases = 0

\* analyze_failed_urls: record['error_category'] = categorize_error(record['error']),
\* for a record whose message has one more phrase than the previous one.
Categorize ==
    /\ category # "idle"
    /\ nPhrases < MaxPhrases
    /\ \E p \in MsgPhrases : errMsg' = errMsg \o p
    /\ category' = categorize_error(errMsg')
    /\ nPhrases' = nPhrases + 1
    /\ UNCHANGED <<canonVars, retryVars, scrapeVars, extractVars, analyzeVars, corpusVars>>

(***************************************************************************)
(* extract_failed_urls.py : main, analyze_failed_urls, generate_retry_script *)
(***************************************************************************)

\* Failed URL records extract_failed_urls returns.
MaxFailed == 3

\* The errors of the records (the ref{i}_error cells of the scraper).
FailedErrors ==
    { <<"404", "Client", "Error", "Not", "Found">>,
      <<"403", "Client", "Error", "Forbidden">>,
      <<"401", "Client", "Error", "Unauthorized">>,
      <<"503", "Server", "Error", "Service", "Unavailable">>,
      <<"Read", "timed", "out">>,
      <<"Connection", "refused">> }

FailedRecord(i, error) == [policy_id |-> i, error |-> error, error_category |-> ""]

\* "no_retry_categories" of generate_retry_script
no_retry_categories == {"404_Not_Found", "403_Forbidden", "401_Unauthorized"}

\* "record['error_category'] not in no_retry_categories"
IsRetryable_inverted(record) == record.error_category \in no_retry_categories

IsRetryable(record) == record.error_category \notin no_retry_categories

NoRetryScript == [written |-> FALSE, RETRY_URLS |-> <<>>]

ExtractIdle ==
    /\ failed_urls = <<>> /\ epc = "idle" /\ analyzed = 0 /\ retry_script = NoRetryScript

ExtractInit ==
    /\ \E n \in 0..MaxFailed :
          \E errors \in [1..n -> FailedErrors] :
              failed_urls = [i \in 1..n |-> FailedRecord(i, errors[i])]
    /\ epc = "main"
    /\ analyzed = 0
    /\ retry_script = NoRetryScript

\* main: "if not failed_urls: return"
NoFailedUrls ==
    /\ epc = "main"
    /\ failed_urls = <<>>
    /\ epc' = "done"
    /\ UNCHANGED <<failed_urls, analyzed, retry_script>>
    /\ UNCHANGED <<catVars, canonVars, retryVars, scrapeVars, analyzeVars, corpusVars>>

\* analyze_failed_urls: one pass of "for record in failed_urls"
AnalyzeRecord ==
    /\ epc = "main"
    /\ analyzed < Len(failed_urls)
    /\ failed_urls' =
           [failed_urls EXCEPT ![analyzed + 1].error_category =
               categorize_error(failed_urls[analyzed + 1].error)]
    /\ analyzed' = analyzed + 1
    /\ UNCHANGED <<epc, retry_script>>
    /\ UNCHANGED <<catVars, canonVars, retryVars, scrapeVars, analyzeVars, corpusVars>>

\* generate_retry_script(failed_urls, analysis, output_dir), called by main
\* after analyze_failed_urls when --generate-retry-script is given
GenerateRetryScript ==
    /\ epc = "main"
    /\ failed_urls # <<>>
    /\ analyzed = Len(failed_urls)
    /\ \E generate \in BOOLEAN :
          retry_script' =
              IF generate
              THEN [written |-> TRUE, RETRY_URLS |-> SelectSeq(failed_urls, IsRetryable)]
              ELSE retry_script
    /\ epc' = "done"
    /\ UNCHANGED <<failed_urls, analyzed>>
    /\ UNCHANGED <<catVars, canonVars, retryVars, scrapeVars, analyzeVars, corpusVars>>

(***************************************************************************)
(* scraping_audit.py : canonicalize_url                                    *)
(* A URL string is a sequence of characters.                               *)
(***************************************************************************)

Letters == {"a", "w", "h", "p", "q", "A", "W", "H", "P", "Q"}
\* urllib.parse.scheme_chars
SchemeChars == Letters \cup {"+", "-", "."}

\* s.find(c) + 1, 0 when c is not in s
Find(s, c) ==
    IF \E i \in DOMAIN s : s[i] = c
    THEN CHOOSE i \in DOMAIN s : s[i] = c /\ \A j \in 1..(i - 1) : s[j] # c
    ELSE 0

StartsWith(s, pre) == Len(s) >= Len(pre) /\ SubSeq(s, 1, Len(pre)) = pre

\* s[i:] with 1-based i
From(s, i) == SubSeq(s, i, Len(s))

\* urllib.parse.urlsplit, step by step; rest is what is still to be split.
\* 1. the scheme: the text before the first ":", when it is a valid scheme
SplitScheme(url) ==
    IF /\ Find(url, ":") > 1
       /\ url[1] \in Letters
       /\ \A k \in 1..(Find(url, ":") - 1) : url[k] \in SchemeChars
    THEN [scheme |-> Lower(SubSeq(url, 1, Find(url, ":") - 1)),
          rest |-> From(url, Find(url, ":") + 1)]
    ELSE [scheme |-> <<>>, rest |-> url]

\* the first of "/", "?", "#" at or after position 3, Len + 1 when none
NetlocEnd(s) ==
    IF \E k \in 3..Len(s) : s[k] \in {"/", "?", "#"}
    THEN CHOOSE k \in 3..Len(s) :
            /\ s[k] \in {"/", "?", "#"}
            /\ \A j \in 3..(k - 1) : s[j] \notin {"/", "?", "#"}
    ELSE Len(s) + 1

\* 2. the netloc: after a leading "//", up to the next "/", "?" or "#"
SplitNetloc(p) ==
    IF StartsWith(p.rest, <<"/", "/">>)
    THEN [scheme |-> p.scheme,
          netloc |-> SubSeq(p.rest, 3, NetlocEnd(p.rest) - 1),
          rest |-> From(p.rest, NetlocEnd(p.rest))]
    ELSE [scheme |-> p.scheme, netloc |-> <<>>, rest |-> p.rest]

\* 3. the fragment: after the first "#"
SplitFragment(p) ==
    IF Find(p.rest, "#") > 0
    THEN [scheme |-> p.scheme, netloc |-> p.netloc,
          fragment |-> From(p.rest, Find(p.rest, "#") + 1),
          rest |-> SubSeq(p.rest, 1, Find(p.rest, "#") - 1)]
    ELSE [scheme |-> p.scheme, netloc |-> p.netloc, fragment |-> <<>>,
          rest |-> p.rest]

\* 4. the query: after the first "?"; what is left is the path
SplitQuery(p) ==
    IF Find(p.rest, "?") > 0
    THEN [scheme |-> p.scheme, netloc |-> p.netloc, fragment |-> p.fragment,
          query |-> From(p.rest, Find(p.rest, "?") + 1),
          path |-> SubSeq(p.rest, 1, Find(p.rest, "?") - 1)]
    ELSE [scheme |-> p.scheme, netloc |-> p.netloc, fragment |-> p.fragment,
          query |-> <<>>, path |-> p.rest]

\* urllib.parse.urlparse: scheme, netloc, path, query, fragment
urlparse(url) == SplitQuery(SplitFragment(SplitNetloc(SplitScheme(url))))

\* str.replace(old, new): the occurrences of old, left to right, not overlapping
Replace(s, old, new) ==
    LET rest[i \in 1..(Len(s) + 1)] ==
            IF i > Len(s) THEN <<>>
            ELSE IF i + Len(old) - 1 <= Len(s) /\ SubSeq(s, i, i + Len(old) - 1) = old
                 THEN new \o rest[i + Len(old)]
                 ELSE <<s[i]>> \o rest[i + 1]
    IN  rest[1]

\* str.rstrip(c)
RStrip(s, c) ==
    LET keep == {i \in DOMAIN s : s[i] # c}
    IN  IF keep = {} THEN <<>>
        ELSE SubSeq(s, 1, CHOOSE i \in keep : \A j \in keep : j <= i)

\* str.lstrip(c)
LStrip(s, c) ==
    LET keep == {i \in DOMAIN s : s[i] # c}
    IN  IF keep = {} THEN <<>>
        ELSE SubSeq(s, CHOOSE i \in keep : \A j \in keep : i <= j, Len(s))

Www == <<"w", "w", "w", ".">>
Https == <<"h", "t", "t", "p", "s">>

\* "scheme = parsed.scheme or 'https'"
SchemeOrHttps(scheme) == IF scheme # <<>> THEN scheme ELSE Https
\* "path = parsed.path.rstrip('/') or '/'"
PathOrSlash_keep_slash(path) == IF path # <<>> THEN path ELSE <<"/">>

PathOrSlash(path) == IF RStrip(path, "/") # <<>> THEN RStrip(path, "/") ELSE <<"/">>

\* f"{scheme}://{netloc}{path}" for the parsed, lower-cased URL
CanonicalForm(parsed) ==
    SchemeOrHttps(parsed.scheme) \o <<":", "/", "/">>
    \o Replace(parsed.netloc, Www, <<>>) \o PathOrSlash(parsed.path)

canonicalize_url(url) == CanonicalForm(urlparse(Lower(url)))

\* The URL string of a URL given by its components (RFC 3986, 5.3).
Render(p) ==
    (IF p.scheme # <<>> THEN p.scheme \o <<":">> ELSE <<>>)
    \o (IF p.auth THEN <<"/", "/">> \o p.host ELSE <<>>)
    \o p.path
    \o (IF p.hasQ THEN <<"?">> \o p.query ELSE <<>>)
    \o (IF p.hasF THEN <<"#">> \o p.frag ELSE <<>>)

\* The components are those of a URL: with an authority the path is empty
\* or absolute, without one it does not begin with "//".
WellFormed(p) ==
    /\ p.auth => (p.path = <<>> \/ StartsWith(p.path, <<"/">>))
    /\ ~p.auth => (p.host = <<>> /\ ~StartsWith(p.path, <<"/", "/">>))

UrlSchemes == { <<>>, <<"h">> }
UrlHosts == { <<"a", ".", "p">>, <<"w", "w", "w", ".", "a">>, <<"a", "w", "w", "w", ".", "p">> }
UrlPaths == { <<>>, <<"/">>, <<"/", "p">>, <<"/", "p", "/", "q", "/">>, <<"a", ".", "p", "/", "q">> }
UrlQueries == { <<"q">>, <<"q", "/">> }
UrlFrags == { <<"a">>, <<"a", "?", "q", "/">> }

UrlParts ==
    { p \in [scheme : UrlSchemes, auth : BOOLEAN, host : UrlHosts \cup {<<>>},
              path : UrlPaths, hasQ : BOOLEAN, query : UrlQueries \cup {<<>>},
              hasF : BOOLEAN, frag : UrlFrags \cup {<<>>}] :
        /\ WellFormed(p)
        /\ p.auth => p.host # <<>>
        /\ p.hasQ <=> p.query # <<>>
        /\ p.hasF <=> p.frag # <<>> }

\* Number of differences introduced between the two URLs.
MaxEdits == 2
\* Longest path a trailing slash is added to.
MaxPathLen == 6

ToggleTok(t) ==
    IF \E p \in CasePairs : p[1] = t THEN LowerTok(t)
    ELSE IF \E p \in CasePairs : p[2] = t /\ p[1] \in Letters
         THEN (CHOOSE p \in CasePairs : p[2] = t /\ p[1] \in Letters)[1]
         ELSE t

ToggleAt(s, i) == [k \in DOMAIN s |-> IF k = i THEN ToggleTok(s[k]) ELSE s[k]]

SetField(p, f, v) ==
    CASE f = "scheme" -> [p EXCEPT !.scheme = v]
      [] f = "host"   -> [p EXCEPT !.host = v]
      [] f = "path"   -> [p EXCEPT !.path = v]
      [] f = "query"  -> [p EXCEPT !.query = v]
      [] f = "frag"   -> [p EXCEPT !.frag = v]

CanonIdle ==
    /\ urlA = <<>> /\ urlB = <<>> /\ edits = 0 /\ canonA = <<>> /\ canonB = <<>>

CanonInit ==
    /\ urlA \in UrlParts
    /\ urlB = urlA
    /\ edits = 0
    /\ canonA = canonicalize_url(Render(urlA))
    /\ canonB = canonA

\* analyze_canonical_duplicates: canonical = canonicalize_url(item['url'])
\* for the item whose URL is that of urlB changed into b.
Canonicalize(b) ==
    /\ edits < MaxEdits
    /\ urlB # <<>>
    /\ WellFormed(b)
    /\ b # urlB
    /\ urlB' = b
    /\ edits' = edits + 1
    /\ canonB' = canonicalize_url(Render(b))
    /\ UNCHANGED <<urlA, canonA>>
    /\ UNCHANGED <<catVars, retryVars, scrapeVars, extractVars, analyzeVars, corpusVars>>

\* the other URL differs in the case of one letter
DifferInCase ==
    \E f \in {"scheme", "host", "path", "query", "frag"} :
        \E i \in DOMAIN urlB[f] :
            Canonicalize(SetField(urlB, f, ToggleAt(urlB[f], i)))

\* the other URL differs in its query string
DifferInQuery ==
    \/ \E q \in UrlQueries : Canonicalize([urlB EXCEPT !.hasQ = TRUE, !.query = q])
    \/ Canonicalize([urlB EXCEPT !.hasQ = FALSE, !.query = <<>>])

\* the other URL differs in its fragment
DifferInFragment ==
    \/ \E f \in UrlFrags : Canonicalize([urlB EXCEPT !.hasF = TRUE, !.frag = f])
    \/ Canonicalize([urlB EXCEPT !.hasF = FALSE, !.frag = <<>>])

\* the other URL differs in a leading "www." of the host
DifferInWww ==
    /\ urlB # <<>>
    /\ urlB.auth
    /\ \/ Canonicalize([urlB EXCEPT !.host = Www \o urlB.host])
       \/ /\ StartsWith(Lower(urlB.host), Www)
          /\ Canonicalize([urlB EXCEPT !.host = From(urlB.host, Len(Www) + 1)])

\* the other URL differs in a trailing slash of the path
DifferInTrailingSlash ==
    /\ urlB # <<>>
    /\ \/ /\ Len(urlB.path) < MaxPathLen
          /\ Canonicalize([urlB EXCEPT !.path = urlB.path \o <<"/">>])
       \/ /\ RStrip(urlB.path, "/") # urlB.path
          /\ Canonicalize([urlB EXCEPT !.path = SubSeq(urlB.path, 1, Len(urlB.path) - 1)])

\* Hosts of further items of url_list.
OtherHosts == UrlHosts \cup { <<"a", "p">>, <<"p">>, <<"A", ".", "P">> }

\* the other URL is that of another host
DifferInHost ==
    /\ urlB # <<>>
    /\ urlB.auth
    /\ \E h \in OtherHosts : Canonicalize([urlB EXCEPT !.host = h])

(***************************************************************************)
(* retry_failed_urls.py / retry_failed_urls_simple.py : data               *)
(***************************************************************************)

MAX_RETRIES == 3
\* "Save progress every 25 URLs"
CheckpointEvery == 25
\* "Check if content is substantial"
MinTextLen == 100

Full == "retry_failed_urls.py"
Simple == "retry_failed_urls_simple.py"

EndsWith(s, suf) ==
    Len(s) >= Len(suf) /\ SubSeq(s, Len(s) - Len(suf) + 1, Len(s)) = suf

\* str.strip() (blanks only)
Strip(s) == LStrip(RStrip(s, " "), " ")

get_file_extension_from_url(url) ==
    IF EndsWith(Lower(urlparse(url).path), <<".", "p", "d", "f">>) THEN "pdf" ELSE "None"

get_domain(url) == urlparse(url).netloc

\* A cell of the 'url' column: NaN, or a string.
NaNCell == [na |-> TRUE, s |-> <<>>]
StrCell(s) == [na |-> FALSE, s |-> s]

\* retry_url: pd.isna(url) or str(url).strip() == "" or url == "N/A"
NoValidUrl(cell) ==
    cell.na \/ Strip(cell.s) = <<>> \/ cell.s = <<"N", "/", "A">>

\* The URLs of the failed-URL file.
UrlHtmlA1 == <<"h", ":", "/", "/", "a", "/", "p">>
UrlHtmlA2 == <<"H", ":", "/", "/", "a", "/", "q", " ">>
UrlPdfA == <<"h", ":", "/", "/", "a", "/", "p", ".", "P", "D", "F">>
UrlHtmlW == <<"h", ":", "/", "/", "w", "/", "p">>

\* Exception messages, as word sequences.
StatusMsg(status) ==
    CASE status = 401 -> <<"401", "Client", "Error", "Unauthorized">>
      [] status = 403 -> <<"403", "Client", "Error", "Forbidden">>
      [] status = 404 -> <<"404", "Client", "Error", "Not", "Found">>
      [] status = 503 -> <<"503", "Server", "Error", "Service", "Unavailable">>
      [] OTHER -> <<"Error">>
MsgReadTimeout == <<"Read", "timed", "out">>
MsgConnection == <<"Connection", "refused">>
MsgTooShort == <<"Content", "too", "short", "might", "be", "blocked">>
MsgSeleniumShort == <<"Content", "too", "short">>
MsgSeleniumDriver == <<"net", "ERR", "BLOCKED", "BY", "CLIENT">>
MsgNoValidUrl == <<"No", "valid", "URL">>
NoError == <<>>

\* What scraper.get(url, timeout=TIMEOUT) can do: raise, or return a response
\* with a status, a body and the length of the text extracted from the body.
Raises(msg) == [kind |-> "exc", msg |-> msg, status |-> 0, body |-> <<>>, textLen |-> 0]
Response(status, body, n) ==
    [kind |-> "resp", msg |-> NoError, status |-> status, body |-> body, textLen |-> n]

BodyDocument == <<"policy", "text">>
BodyJustAMoment == <<"Just", "a", "moment">>
BodyChecking == <<"Checking", "your", "browser">>
BodyCfVerification == <<"div", "cf-browser-verification">>

GetOutcomes ==
    { Response(200, BodyDocument, 100), Response(200, BodyDocument, 99),
      Response(200, BodyJustAMoment, 100), Response(200, BodyChecking, 99),
      Response(200, BodyCfVerification, 99),
      Response(403, BodyDocument, 99), Response(403, BodyJustAMoment, 99),
      Response(503, BodyJustAMoment, 99),
      Response(404, BodyDocument, 99), Response(401, BodyDocument, 99),
      Raises(MsgReadTimeout), Raises(MsgConnection) }

\* What the Selenium driver can do: raise, or show a page whose body text
\* has the given length.
SeleniumOutcomes ==
    { Response(200, BodyDocument, 100), Response(200, BodyDocument, 99),
      Raises(MsgSeleniumDriver) }

\* What scraper.head(url, ...) can do: raise, or return a content-type.
HeadOutcomes == {"application/pdf", "text/html", "raises"}

\* A server that answers every request for a URL the same way.
ScriptedGet(url) ==
    CASE url = UrlHtmlA1 -> Response(200, BodyDocument, 100)
      [] url = Strip(UrlHtmlA2) -> Response(200, BodyJustAMoment, 99)
      [] url = UrlPdfA -> Response(404, BodyDocument, 99)
      [] OTHER -> Raises(MsgReadTimeout)
ScriptedSelenium(url) == Response(200, BodyDocument, 100)
ScriptedHead(url) == "text/html"

\* r.raise_for_status(): the message of the HTTPError, NoError when none
raise_for_status(r) == IF r.status >= 400 THEN StatusMsg(r.status) ELSE NoError

\* scrape_html: the three challenge markers looked for in r.text
ChallengeMarkers ==
    { <<"Just", "a", "moment">>, <<"Checking", "your", "browser">>,
      <<"cf-browser-verification">> }

IsChallengePage_first_marker(text) == Contains(text, <<"Just", "a", "moment">>)

IsChallengePage(text) == \E marker \in ChallengeMarkers : Contains(text, marker)

\* scrape_html: any(keyword in error_str.lower() for keyword in [...])
SeleniumKeywords == { <<"403">>, <<"forbidden">>, <<"cloudflare">>, <<"blocked">> }
IsBlockedError_any(error_str) == error_str # NoError

IsBlockedError(error_str) ==
    \E kw \in SeleniumKeywords : Contains(Lower(error_str), kw)

\* "if retries < MAX_RETRIES" of download_pdf and scrape_html, in the
\* handler of "except Exception as e"
Retryable_one_more(e, retries) == retries <= MAX_RETRIES
Retryable_by_class(e, retries) ==
    /\ retries < MAX_RETRIES
    /\ categorize_error(e) \notin {"404_Not_Found", "401_Unauthorized"}

Retryable(e, retries) == retries < MAX_RETRIES

\* "if domain in SELENIUM_DOMAINS" of scrape_html
GoesStraightToSelenium_always(domain, domains) == TRUE
GoesStraightToSelenium_never(domain, domains) == FALSE

GoesStraightToSelenium(domain, domains) == domain \in domains

\* How one step of download_pdf or scrape_html ends: the call returned True
\* (ret = "true"), raised err (ret = "raise"), calls itself with retries + 1
\* (ret = "again"), or calls scrape_with_selenium_fallback (ret = "selenium",
\* from the place via).  saved is the length of the text written to
\* save_path (-1: nothing written), get how the GET of this step went.
Outcome(ret, err, saved, by, domains, get, via) ==
    [ret |-> ret, err |-> err, saved |-> saved, by |-> by, domains |-> domains,
     get |-> get, via |-> via]

\* download_pdf(url, save_path, retries) when the GET does g
download_pdf(retries, g) ==
    LET e == IF g.kind = "exc" THEN g.msg ELSE raise_for_status(g)
    IN  IF e = NoError
        THEN Outcome("true", NoError, 0, "cloudscraper", {}, "ok", "")
        ELSE IF Retryable(e, retries)
        THEN Outcome("again", e, -1, "", {}, "failed", "")
        ELSE Outcome("raise", e, -1, "", {}, "failed", "")

\* scrape_html(url, save_path, retries) of retry_failed_urls_simple.py
scrape_html_simple(retries, g) ==
    LET e == IF g.kind = "exc" THEN g.msg
             ELSE IF raise_for_status(g) # NoError THEN raise_for_status(g)
             ELSE IF g.textLen < MinTextLen THEN MsgTooShort
             ELSE NoError
    IN  IF e = NoError
        THEN Outcome("true", NoError, g.textLen, "cloudscraper", {}, "ok", "")
        ELSE IF Retryable(e, retries)
        THEN Outcome("again", e, -1, "", {}, "failed", "")
        ELSE Outcome("raise", e, -1, "", {}, "failed", "")

\* The handler "except Exception as e" of scrape_html (retry_failed_urls.py,
\* lines 166-184), up to the call of scrape_with_selenium_fallback
scrape_html_except(e, domain, retries, domains, get) ==
    IF IsBlockedError(e) /\ retries = 0
    THEN Outcome("selenium", e, -1, "", domains \cup {domain}, get, "except")
    ELSE IF Retryable(e, retries)
    THEN Outcome("again", e, -1, "", domains, get, "")
    ELSE Outcome("raise", e, -1, "", domains, get, "")

\* scrape_html(url, save_path, retries) of retry_failed_urls.py when the GET
\* does g, up to the return or to the call of scrape_with_selenium_fallback
scrape_html(url, retries, domains, g) ==
    IF GoesStraightToSelenium(get_domain(url), domains)
    THEN Outcome("selenium", NoError, -1, "", domains, "none", "known")
    ELSE IF g.kind = "exc"
    THEN scrape_html_except(g.msg, get_domain(url), retries, domains, "failed")
    ELSE IF raise_for_status(g) # NoError
    THEN scrape_html_except(raise_for_status(g), get_domain(url), retries, domains,
                            "failed")
    ELSE IF IsChallengePage(g.body)
    THEN Outcome("selenium", NoError, -1, "", domains \cup {get_domain(url)},
                 "challenge", "try")
    ELSE IF g.textLen < MinTextLen
    THEN scrape_html_except(MsgTooShort, get_domain(url), retries, domains, "failed")
    ELSE Outcome("true", NoError, g.textLen, "cloudscraper", domains, "ok", "")

selenium_error_unchecked(s) == IF s.kind = "exc" THEN s.msg ELSE NoError

\* scrape_with_selenium_fallback(url, save_path) when the driver does s: the
\* message of the exception it raises, NoError when it returns True
selenium_error(s) ==
    IF s.kind = "exc" THEN s.msg
    ELSE IF s.textLen < MinTextLen THEN MsgSeleniumShort
    ELSE NoError

\* scrape_html from the call of scrape_with_selenium_fallback on, when the
\* driver does s: called for a known domain (line 136) or from the handler
\* (line 175) an exception leaves scrape_html; called in the try block
\* (line 146) it is handled like any other
scrape_html_selenium(via, url, retries, domains, s) ==
    IF selenium_error(s) = NoError
    THEN Outcome("true", NoError, s.textLen, "selenium", domains, "none", "")
    ELSE IF via = "try"
    THEN scrape_html_except(selenium_error(s), get_domain(url), retries, domains, "none")
    ELSE Outcome("raise", selenium_error(s), -1, "", domains, "none", "")

(***************************************************************************)
(* retry_failed_urls.py / retry_failed_urls_simple.py : the program        *)
(***************************************************************************)

ColsAll ==
    {"policy_id", "reference_column", "ref_number", "url", "error", "country",
     "policy_title", "error_category"}
RequiredCols == {"policy_id", "ref_number", "url"}

\* main of retry_failed_urls.py: "missing_cols = [col for col in required_cols
\* if col not in df.columns]"
missing_cols_only_ids(cols) == {"policy_id", "ref_number"} \ cols

missing_cols(cols) == RequiredCols \ cols

\* The rows of the failed-URL file are taken, in order, from this cycle;
\* error_category is as extract_failed_urls.py wrote it.
RowCycle ==
    << [url |-> StrCell(<<"N", "/", "A">>), error |-> MsgConnection],
       [url |-> StrCell(UrlHtmlA1), error |-> StatusMsg(403)],
       [url |-> StrCell(UrlHtmlA2), error |-> MsgReadTimeout],
       [url |-> StrCell(UrlPdfA), error |-> StatusMsg(404)],
       [url |-> StrCell(UrlHtmlW), error |-> StatusMsg(403)],
       [url |-> NaNCell, error |-> MsgReadTimeout] >>

CsvRow(i, start) ==
    LET r == RowCycle[((start + i - 2) % Len(RowCycle)) + 1]
    IN  [policy_id |-> i, ref_number |-> 1, url |-> r.url, error |-> r.error,
         error_category |-> categorize_error(r.error)]

CsvFile(cols, start, n) ==
    [exists |-> TRUE, cols |-> cols, rows |-> [i \in 1..n |-> CsvRow(i, start)]]
NoCsvFile == [exists |-> FALSE, cols |-> {}, rows |-> <<>>]

\* Rows of the failed-URL file when every fetch outcome is explored.
MaxRows == 2
\* Rows of the failed-URL file of a long run (more than one checkpoint interval).
MaxLongRows == 26
\* Times the script is started.
MaxRuns == 2

ChoiceKeywords(choice) ==
    IF choice = "2" THEN { <<"403">>, <<"forbidden">>, <<"cloudflare">> }
    ELSE { <<"timeout">>, <<"connection">>, <<"timed", "out">> }
ChoiceCategories(choice) ==
    IF choice = "2" THEN {"403_Forbidden"}
    ELSE {"Timeout", "Connection_Refused", "Connection_Error", "Read_Timeout"}

\* main: the filter of the chosen retry option, for one row
KeepRow(scr, cols, choice, cat_choice, row) ==
    IF choice \in {"2", "3"}
    THEN IF "error" \in cols
         THEN \E kw \in ChoiceKeywords(choice) : Contains(Lower(row.error), kw)
         ELSE IF "error_category" \in cols
         THEN row.error_category \in ChoiceCategories(choice)
         ELSE TRUE
    ELSE IF choice = "4" /\ scr = Full /\ "error_category" \in cols
    THEN row.error_category = cat_choice
    ELSE TRUE

\* "for idx, row in df.iterrows()": the position in df of the row handled
\* after pos rows have been handled
iterrows_backwards(d, n) == Len(d) - n

iterrows(d, n) == n + 1

\* "if processed % 25 == 0"
IsCheckpoint_index(processed) == (processed - 1) % CheckpointEvery = 0

IsCheckpoint(processed) == processed % CheckpointEvery = 0

\* "df['retry_status'] = ''": the status main gives a row when it starts,
\* whatever the progress file on disk holds
InitialStatus_resuming(src, progress) ==
    IF \E j \in DOMAIN progress : progress[j].src = src
    THEN progress[CHOOSE j \in DOMAIN progress : progress[j].src = src].retry_status
    ELSE ""

InitialStatus(src, progress) == ""

\* main: df after the filter, with the result columns added
Filtered(scr, cols, choice, cat_choice, rows, progress) ==
    LET kept == {i \in DOMAIN rows : KeepRow(scr, cols, choice, cat_choice, rows[i])}
        nth[k \in 1..Cardinality(kept)] ==
            CHOOSE i \in kept : Cardinality({j \in kept : j < i}) = k - 1
    IN  [k \in 1..Cardinality(kept) |->
            [src |-> nth[k], retry_status |-> InitialStatus(nth[k], progress),
             retry_type |-> "", retry_error |-> NoError]]

NoCall ==
    [fn |-> "none", url |-> <<>>, retries |-> 0, name |-> <<>>, via |-> "",
     head |-> "none"]
NoResult == [filetype |-> "", error |-> NoError]
NoGet == [kind |-> "none", msg |-> NoError, status |-> 0, body |-> <<>>, textLen |-> 0]
NoOutcome == Outcome("", NoError, -1, "", {}, "none", "")

Gets(world, url) == IF world = "any" THEN GetOutcomes ELSE {ScriptedGet(url)}
Seleniums(world, url) == IF world = "any" THEN SeleniumOutcomes ELSE {ScriptedSelenium(url)}
Heads(world, url) == IF world = "any" THEN HeadOutcomes ELSE {ScriptedHead(url)}

RetryInit(scripts, files0) ==
    /\ script \in scripts
    /\ csv \in files0
    /\ pc = "start"
    /\ run = 1
    /\ df = <<>>
    /\ pos = 0
    /\ success_count = 0
    /\ error_count = 0
    /\ call = NoCall
    /\ result = NoResult
    /\ SELENIUM_DOMAINS = {}
    /\ outCsv = <<>>
    /\ files = {}
    /\ gets = 0
    /\ sels = 0
    /\ lastGet = NoGet
    /\ lastOut = NoOutcome
    /\ badGet = {}
    /\ writes = <<>>
    /\ handled = <<>>
    /\ prior = <<>>

RetryIdle ==
    /\ script = "" /\ csv = NoCsvFile /\ pc = "idle" /\ run = 0 /\ df = <<>>
    /\ pos = 0 /\ success_count = 0 /\ error_count = 0 /\ call = NoCall
    /\ result = NoResult /\ SELENIUM_DOMAINS = {} /\ outCsv = <<>> /\ files = {}
    /\ gets = 0 /\ sels = 0 /\ lastGet = NoGet /\ lastOut = NoOutcome
    /\ badGet = {} /\ writes = <<>> /\ handled = <<>> /\ prior = <<>>

\* main, from the start up to the loop (lines 234-338)
MainLoad ==
    /\ pc = "start"
    /\ \E choice \in {"", "1", "2", "3", "4"},
          cat_choice \in {"403_Forbidden", "Timeout", "no such category"} :
        LET loaded == csv
            frame == Filtered(script, loaded.cols, choice, cat_choice, loaded.rows,
                              outCsv)
        IN  IF ~loaded.exists
            THEN pc' = "done" /\ df' = <<>>
            ELSE IF script = Full /\ missing_cols(loaded.cols) # {}
            THEN pc' = "done" /\ df' = <<>>
            ELSE IF Len(frame) = 0
            THEN pc' = "done" /\ df' = frame
            ELSE pc' = "loop" /\ df' = frame
    /\ pos' = 0
    /\ success_count' = 0
    /\ error_count' = 0
    /\ UNCHANGED <<script, csv, run, call, result, SELENIUM_DOMAINS, outCsv,
                   files, gets, sels, lastGet, lastOut, badGet, writes,
                   handled, prior>>
    /\ UNCHANGED <<catVars, canonVars, scrapeVars, extractVars, analyzeVars, corpusVars>>

\* retry_url: the file type, from the extension the URL's path gives
\* ("None": none) and, without one, from what the HEAD request did
file_type_raises_pdf(byName, h) ==
    IF byName # "None" THEN byName
    ELSE IF h \in {"application/pdf", "raises"} THEN "pdf"
    ELSE "html"

file_type(byName, h) ==
    IF byName # "None" THEN byName
    ELSE IF h = "application/pdf" THEN "pdf"
    ELSE "html"

\* retry_url, up to the call of download_pdf or scrape_html (lines 187-223)
RetryUrl(world) ==
    /\ pc = "loop"
    /\ pos < Len(df)
    /\ LET src == df[iterrows(df, pos)].src
           row == csv.rows[src]
           url == Strip(row.url.s)
           byName == get_file_extension_from_url(url)
       IN  /\ handled' = Append(handled, src)
           /\ IF ~(RequiredCols \subseteq csv.cols)
              THEN \* row['policy_id'] raises KeyError: the script ends
                   pc' = "done" /\ UNCHANGED <<call, result>>
              ELSE IF NoValidUrl(row.url)
              THEN /\ pc' = "record"
                   /\ call' = NoCall
                   /\ result' = [filetype |-> "None", error |-> MsgNoValidUrl]
              ELSE \E h \in Heads(world, url) :
                   LET ext == file_type(byName, h)
                   IN  /\ pc' = "fetch"
                       /\ call' = [fn |-> IF ext = "pdf" THEN "download_pdf"
                                                       ELSE "scrape_html",
                                   url |-> url, retries |-> 0, via |-> "",
                                   head |-> IF byName # "None" THEN "none" ELSE h,
                                   name |-> <<row.policy_id, row.ref_number, ext>>]
                       /\ result' = NoResult
    /\ gets' = 0
    /\ sels' = 0
    /\ lastGet' = NoGet
    /\ lastOut' = NoOutcome
    /\ UNCHANGED <<script, csv, run, df, pos, success_count, error_count,
                   SELENIUM_DOMAINS, outCsv, files, badGet, writes, prior>>
    /\ UNCHANGED <<catVars, canonVars, scrapeVars, extractVars, analyzeVars, corpusVars>>

\* The effect of one step of download_pdf or scrape_html that ends as out.
Returns(out, g) ==
    /\ gets' = IF out.get # "none" THEN gets + 1 ELSE gets
    /\ lastGet' = IF out.get # "none" THEN g ELSE NoGet
    /\ lastOut' = out
    /\ badGet' = IF out.get \in {"failed", "challenge"}
                 THEN badGet \cup {get_domain(call.url)} ELSE badGet
    /\ files' = IF out.saved >= 0
                THEN {f \in files : f.name # call.name}
                     \cup {[name |-> call.name, textLen |-> out.saved, by |-> out.by]}
                ELSE files
    /\ IF out.ret = "again"
       THEN /\ call' = [call EXCEPT !.retries = call.retries + 1, !.via = ""]
            /\ pc' = "fetch"
            /\ UNCHANGED result
       ELSE IF out.ret = "selenium"
       THEN /\ call' = [call EXCEPT !.via = out.via]
            /\ pc' = "selenium"
            /\ UNCHANGED result
       ELSE /\ pc' = "record"
            /\ result' = IF out.ret = "true"
                         THEN [filetype |-> call.name[3], error |-> NoError]
                         ELSE [filetype |-> "None", error |-> out.err]
            /\ call' = [call EXCEPT !.via = ""]
    /\ UNCHANGED <<script, csv, run, df, pos, success_count, error_count,
                   outCsv, writes, handled, prior>>
    /\ UNCHANGED <<catVars, canonVars, scrapeVars, extractVars, analyzeVars, corpusVars>>

\* one call of download_pdf (either script)
DownloadPdf(world) ==
    /\ pc = "fetch"
    /\ call.fn = "download_pdf"
    /\ \E g \in Gets(world, call.url) : Returns(download_pdf(call.retries, g), g)
    /\ UNCHANGED <<SELENIUM_DOMAINS, sels>>

\* one call of scrape_html of retry_failed_urls_simple.py
ScrapeHtmlSimple(world) ==
    /\ pc = "fetch"
    /\ call.fn = "scrape_html"
    /\ script = Simple
    /\ \E g \in Gets(world, call.url) : Returns(scrape_html_simple(call.retries, g), g)
    /\ UNCHANGED <<SELENIUM_DOMAINS, sels>>

\* one call of scrape_html of retry_failed_urls.py, up to its return or to
\* the call of scrape_with_selenium_fallback
ScrapeHtml(world) ==
    /\ pc = "fetch"
    /\ call.fn = "scrape_html"
    /\ script = Full
    /\ \E g \in Gets(world, call.url) :
        LET out == scrape_html(call.url, call.retries, SELENIUM_DOMAINS, g)
        IN  /\ Returns(out, g)
            /\ SELENIUM_DOMAINS' = out.domains
    /\ UNCHANGED sels

\* scrape_with_selenium_fallback and what scrape_html does with its result
SeleniumFallback(world) ==
    /\ pc = "selenium"
    /\ \E s \in Seleniums(world, call.url) :
        LET out == scrape_html_selenium(call.via, call.url, call.retries,
                                        SELENIUM_DOMAINS, s)
        IN  /\ Returns(out, s)
            /\ SELENIUM_DOMAINS' = out.domains
    /\ sels' = sels + 1

\* main: the rest of the loop body after retry_url returned (lines 356-383)
RecordRow ==
    /\ pc = "record"
    /\ LET processed == error_count + success_count + 1
           i == iterrows(df, pos)
           updated ==
               [df EXCEPT ![i] =
                   IF result.filetype # "None"
                   THEN [@ EXCEPT !.retry_status = "SUCCESS",
                                  !.retry_type = result.filetype]
                   ELSE [@ EXCEPT !.retry_status = "FAILED",
                                  !.retry_error = result.error]]
       IN  /\ df' = updated
           /\ success_count' = IF result.filetype # "None"
                               THEN success_count + 1 ELSE success_count
           /\ error_count' = IF result.filetype # "None"
                             THEN error_count ELSE error_count + 1
           /\ IF IsCheckpoint(processed)
              THEN outCsv' = updated /\ writes' = Append(writes, processed)
              ELSE UNCHANGED <<outCsv, writes>>
    /\ pos' = pos + 1
    /\ pc' = "loop"
    /\ call' = NoCall
    /\ result' = NoResult
    /\ lastGet' = NoGet
    /\ lastOut' = NoOutcome
    /\ UNCHANGED <<script, csv, run, SELENIUM_DOMAINS, files, gets, sels,
                   badGet, handled, prior>>
    /\ UNCHANGED <<catVars, canonVars, scrapeVars, extractVars, analyzeVars, corpusVars>>

\* main: "Final save" after the loop (line 386)
FinalSave ==
    /\ pc = "loop"
    /\ pos = Len(df)
    /\ outCsv' = df
    /\ writes' = Append(writes, pos)
    /\ pc' = "done"
    /\ UNCHANGED <<script, csv, run, df, pos, success_count, error_count, call,
                   result, SELENIUM_DOMAINS, files, gets, sels, lastGet,
                   lastOut, badGet, handled, prior>>
    /\ UNCHANGED <<catVars, canonVars, scrapeVars, extractVars, analyzeVars, corpusVars>>

\* The run is interrupted (Ctrl-C, the machine goes down): the process and
\* what it held in memory are gone, the files on disk stay.
Interrupt ==
    /\ pc \in {"loop", "fetch", "selenium", "record"}
    /\ pc' = "killed"
    /\ df' = <<>>
    /\ pos' = 0
    /\ success_count' = 0
    /\ error_count' = 0
    /\ call' = NoCall
    /\ result' = NoResult
    /\ SELENIUM_DOMAINS' = {}
    /\ gets' = 0
    /\ sels' = 0
    /\ lastGet' = NoGet
    /\ lastOut' = NoOutcome
    /\ badGet' = {}
    /\ writes' = <<>>
    /\ handled' = <<>>
    /\ UNCHANGED <<script, csv, run, outCsv, files, prior>>
    /\ UNCHANGED <<catVars, canonVars, scrapeVars, extractVars, analyzeVars, corpusVars>>

\* The script is started again after an interruption; prior is the progress
\* file it finds on disk.
Restart ==
    /\ pc = "killed"
    /\ run < MaxRuns
    /\ run' = run + 1
    /\ pc' = "start"
    /\ prior' = outCsv
    /\ UNCHANGED <<script, csv, df, pos, success_count, error_count, call,
                   result, SELENIUM_DOMAINS, outCsv, files, gets, sels, lastGet,
                   lastOut, badGet, writes, handled>>
    /\ UNCHANGED <<catVars, canonVars, scrapeVars, extractVars, analyzeVars, corpusVars>>

(***************************************************************************)
(* scrape_policy_refs.py                                                   *)
(***************************************************************************)

REFERENCE_COLUMNS == <<"reference", "reference2", "reference3", "reference4">>

\* Rows of policies.csv.
MaxPolicies == 2

PolicyRefs ==
    << StrCell(UrlHtmlA1), StrCell(UrlPdfA), NaNCell, StrCell(UrlHtmlW) >>

PolicyRow(k) ==
    [policy_id |-> k,
     refs |-> [i \in 1..4 |-> PolicyRefs[((k + i - 2) % 4) + 1]]]

PolicyCsv(cols, n) == [cols |-> cols, rows |-> [k \in 1..n |-> PolicyRow(k)]]

NoRefResult == [type |-> "", error |-> NoError]

\* process_url(url, policy_id, ref_num) when HEAD does h and the GET does g
process_url(cell, h, g) ==
    IF cell.na \/ Strip(cell.s) = <<>>
    THEN [type |-> "", error |-> NoError]
    ELSE LET url == Strip(cell.s)
             byName == get_file_extension_from_url(url)
             ext == IF byName # "None" THEN byName
                    ELSE IF h = "application/pdf" THEN "pdf" ELSE "html"
             e == IF g.kind = "exc" THEN g.msg ELSE raise_for_status(g)
         IN  IF byName = "None" /\ h = "raises"
             THEN [type |-> "", error |-> MsgConnection]
             ELSE IF e # NoError
             THEN [type |-> "", error |-> e]
             ELSE [type |-> ext, error |-> NoError]

\* "for i, col in enumerate(REFERENCE_COLUMNS, start=1)" inside
\* "for idx, row in df.iterrows()": the step after (row, i)
NextCell(row, i, n) ==
    IF i < Len(REFERENCE_COLUMNS) THEN <<row, i + 1>> ELSE <<row + 1, 1>>

ScrapeInit(tables) ==
    /\ policies \in tables
    /\ spc = "run"
    /\ at = <<1, 1>>
    /\ refResults = [k \in 1..Len(policies.rows) |-> [i \in 1..4 |-> NoRefResult]]
    /\ sHandled = <<>>
    /\ policiesOut = <<>>

ScrapeIdle ==
    /\ policies = [cols |-> {}, rows |-> <<>>]
    /\ spc = "idle"
    /\ at = <<1, 1>>
    /\ refResults = <<>>
    /\ sHandled = <<>>
    /\ policiesOut = <<>>

ScrapeOver ==
    at[1] > Len(policies.rows) \/ at[2] > Len(REFERENCE_COLUMNS)

\* one pass of the inner loop (lines 124-138)
ProcessUrl(world) ==
    /\ spc = "run"
    /\ ~ScrapeOver
    /\ LET k == at[1]
           i == at[2]
           cell == policies.rows[k].refs[i]
       IN  IF REFERENCE_COLUMNS[i] \notin policies.cols
           THEN UNCHANGED <<refResults, sHandled>>
           ELSE \E h \in Heads(world, Strip(cell.s)), g \in Gets(world, Strip(cell.s)) :
                /\ refResults' = [refResults EXCEPT ![k][i] = process_url(cell, h, g)]
                /\ sHandled' = Append(sHandled, <<k, i>>)
    /\ at' = NextCell(at[1], at[2], Len(policies.rows))
    /\ UNCHANGED <<policies, spc, policiesOut>>
    /\ UNCHANGED <<catVars, canonVars, retryVars, extractVars, analyzeVars, corpusVars>>

\* df.to_csv(OUTPUT_CSV, index=False) after the loop (line 140)
ScrapeSave ==
    /\ spc = "run"
    /\ ScrapeOver
    /\ policiesOut' = refResults
    /\ spc' = "done"
    /\ UNCHANGED <<policies, at, refResults, sHandled>>
    /\ UNCHANGED <<catVars, canonVars, retryVars, extractVars, analyzeVars, corpusVars>>

(***************************************************************************)
(* analyze_urls.py : analyze_references on the file the scraper wrote      *)
(* A column name is a sequence of pieces: 'reference2' is                  *)
(* <<"reference", "2">>.                                                   *)
(***************************************************************************)

Digit == <<"1", "2", "3", "4">>

\* the name of the i-th of REFERENCE_COLUMNS
ReferenceColumn(i) == IF i = 1 THEN <<"reference">> ELSE <<"reference", Digit[i]>>

\* scrape_policy_refs.py: f"ref{i}_error"
ErrorColumnWritten(i) == <<"ref", Digit[i], "_error">>

\* analyze_references: f'{col.replace("reference", "ref")}_error'
ErrorColumnRead(i) ==
    Replace(ReferenceColumn(i), <<"reference">>, <<"ref">>) \o <<"_error">>

\* df[error_col].value_counts() for the error column the scraper wrote for
\* the i-th reference column: the errors in it, each with its count
value_counts(table, i) ==
    LET errors == {table[k][i].error : k \in DOMAIN table} \ {NoError}
    IN  [e \in errors |-> Cardinality({k \in DOMAIN table : table[k][i].error = e})]

AnalyzeIdle == apc = "idle" /\ error_analysis = <<>>

AnalyzeInit == apc = "todo" /\ error_analysis = <<>>

\* analyze_references(df) on the file the scraper wrote
AnalyzeReferences ==
    /\ spc = "done"
    /\ apc = "todo"
    /\ LET existing == {i \in DOMAIN REFERENCE_COLUMNS :
                           REFERENCE_COLUMNS[i] \in policies.cols}
           written == {ErrorColumnWritten(i) : i \in DOMAIN REFERENCE_COLUMNS}
           found == {i \in existing :
                        /\ ErrorColumnRead(i) \in written
                        /\ \E j \in DOMAIN REFERENCE_COLUMNS :
                               /\ ErrorColumnWritten(j) = ErrorColumnRead(i)
                               /\ DOMAIN value_counts(policiesOut, j) # {}}
       IN  IF existing = {}
           THEN apc' = "none" /\ error_analysis' = <<>>
           ELSE /\ apc' = "done"
                /\ error_analysis' =
                       [c \in {ErrorColumnRead(i) : i \in found} |->
                           value_counts(policiesOut,
                               CHOOSE j \in DOMAIN REFERENCE_COLUMNS :
                                   ErrorColumnWritten(j) = c)]
    /\ UNCHANGED <<catVars, canonVars, retryVars, scrapeVars, extractVars, corpusVars>>

(***************************************************************************)
(* asdfhjhjh.py : loading the corpus                                       *)
(***************************************************************************)

\* Files in CORPUS_FOLDER.
MaxFiles == 3

\* A file: its suffix, lower-cased, and whether pdfplumber raises on it.
FileKinds ==
    { [suffix |-> ".txt", raises |-> FALSE], [suffix |-> ".pdf", raises |-> FALSE],
      [suffix |-> ".pdf", raises |-> TRUE], [suffix |-> ".html", raises |-> FALSE] }

CorpusFile(i, kind) == [name |-> i, suffix |-> kind.suffix, raises |-> kind.raises]

\* read_pdf(path) as the definition def has it, given bad_files as bad: the
\* text returned and bad_files afterwards
read_pdf(def, path, bad) ==
    IF ~path.raises THEN [text |-> "text", bad_files |-> bad]
    ELSE IF def = "line 23" THEN [text |-> "", bad_files |-> bad]
    ELSE [text |-> "", bad_files |-> Append(bad, path.name)]

CorpusIdle ==
    /\ corpus = <<>> /\ cpc = "idle" /\ nread = 0 /\ texts = <<>>
    /\ read_pdf_def = "" /\ bad_files = "undefined"

\* the script at line 42: read_pdf is the definition of line 23
CorpusInit ==
    /\ \E n \in 0..MaxFiles :
          \E kinds \in [1..n -> FileKinds] :
              corpus = [i \in 1..n |-> CorpusFile(i, kinds[i])]
    /\ cpc = "load"
    /\ nread = 0
    /\ texts = <<>>
    /\ read_pdf_def = "line 23"
    /\ bad_files = "undefined"

\* one pass of "for p in Path(CORPUS_FOLDER).glob('*')" (lines 44-48)
LoadFile ==
    /\ cpc = "load"
    /\ nread < Len(corpus)
    /\ LET p == corpus[nread + 1]
           r == read_pdf(read_pdf_def, p, bad_files)
       IN  IF p.suffix = ".txt"
           THEN texts' = Append(texts, "text") /\ UNCHANGED bad_files
           ELSE IF p.suffix = ".pdf"
           THEN texts' = Append(texts, r.text) /\ bad_files' = r.bad_files
           ELSE UNCHANGED <<texts, bad_files>>
    /\ nread' = nread + 1
    /\ UNCHANGED <<corpus, cpc, read_pdf_def>>
    /\ UNCHANGED <<catVars, canonVars, retryVars, scrapeVars, extractVars, analyzeVars>>

\* after the loop: "bad_files = []" (line 56) and the second "def read_pdf"
\* (line 58); nothing calls read_pdf afterwards
RecordBadPdfs ==
    /\ cpc = "load"
    /\ nread = Len(corpus)
    /\ bad_files' = <<>>
    /\ read_pdf_def' = "line 58"
    /\ cpc' = "loaded"
    /\ UNCHANGED <<corpus, nread, texts>>
    /\ UNCHANGED <<catVars, canonVars, retryVars, scrapeVars, extractVars, analyzeVars>>

(***************************************************************************)
(* Specifications                                                          *)
(***************************************************************************)

\* categorize_error on messages of up to MaxPhrases phrases.
CategorizeInit == CatInit /\ CanonIdle /\ RetryIdle /\ ScrapeIdle /\ ExtractIdle /\ AnalyzeIdle /\ CorpusIdle
CategorizeNext == Categorize
SpecCategorize == CategorizeInit /\ [][CategorizeNext]_vars

\* extract_failed_urls.py on up to MaxFailed failed URL records.
ExtractionInit == ExtractInit /\ CatIdle /\ CanonIdle /\ RetryIdle /\ ScrapeIdle /\ AnalyzeIdle /\ CorpusIdle
ExtractionNext ==
    \/ NoFailedUrls
    \/ AnalyzeRecord
    \/ GenerateRetryScript
SpecExtract == ExtractionInit /\ [][ExtractionNext]_vars

\* canonicalize_url on two URLs that come to differ in up to MaxEdits places.
CanonicalInit == CanonInit /\ CatIdle /\ RetryIdle /\ ScrapeIdle /\ ExtractIdle /\ AnalyzeIdle /\ CorpusIdle
CanonicalNext ==
    \/ DifferInCase
    \/ DifferInQuery
    \/ DifferInFragment
    \/ DifferInWww
    \/ DifferInTrailingSlash
SpecCanon == CanonicalInit /\ [][CanonicalNext]_vars

\* canonicalize_url on two URLs that may also be of different hosts.
HostsInit == CanonInit /\ CatIdle /\ RetryIdle /\ ScrapeIdle /\ ExtractIdle /\ AnalyzeIdle /\ CorpusIdle
HostsNext ==
    \/ DifferInHost
    \/ DifferInCase
    \/ DifferInWww
SpecHosts == HostsInit /\ [][HostsNext]_vars

\* One run of either retry script on a short failed-URL file, every outcome
\* of every request explored.
ShortCsvFiles ==
    {NoCsvFile}
    \cup {CsvFile(ColsAll, start, n) : start \in 1..3, n \in 0..MaxRows}
    \cup {CsvFile(ColsAll \ {"error"}, 1, MaxRows), CsvFile(ColsAll \ {"url"}, 1, MaxRows),
          CsvFile(ColsAll \ {"policy_id", "ref_number"}, 1, MaxRows)}

Init ==
    /\ RetryInit({Full, Simple}, ShortCsvFiles)
    /\ CatIdle /\ CanonIdle /\ ScrapeIdle /\ ExtractIdle /\ AnalyzeIdle /\ CorpusIdle

Next ==
    \/ MainLoad
    \/ RetryUrl("any")
    \/ DownloadPdf("any")
    \/ ScrapeHtmlSimple("any")
    \/ ScrapeHtml("any")
    \/ SeleniumFallback("any")
    \/ RecordRow
    \/ FinalSave

Spec == Init /\ [][Next]_vars

\* The scraper on a file with any of the reference columns, then
\* analyze_references on what it wrote.
AllPolicyFiles ==
    {PolicyCsv(cols, MaxPolicies) :
        cols \in SUBSET {"reference", "reference2", "reference3", "reference4"}}

AnalysisInit ==
    /\ ScrapeInit(AllPolicyFiles)
    /\ AnalyzeInit
    /\ CatIdle /\ CanonIdle /\ RetryIdle /\ ExtractIdle /\ CorpusIdle

AnalysisNext ==
    \/ ProcessUrl("scripted")
    \/ ScrapeSave
    \/ AnalyzeReferences

SpecAnalyze == AnalysisInit /\ [][AnalysisNext]_vars

\* asdfhjhjh.py on a corpus folder of up to MaxFiles files.
CorpusLoadInit ==
    /\ CorpusInit
    /\ CatIdle /\ CanonIdle /\ RetryIdle /\ ScrapeIdle /\ ExtractIdle /\ AnalyzeIdle

CorpusLoadNext ==
    \/ LoadFile
    \/ RecordBadPdfs

SpecCorpus == CorpusLoadInit /\ [][CorpusLoadNext]_vars

\* The pipeline on long files: the scraper, then runs of a retry script that
\* may be interrupted and started again; every server answers a URL the same
\* way each time.
LongCsvFiles ==
    {CsvFile(ColsAll, 1, n) : n \in {CheckpointEvery, MaxLongRows}}

PolicyFiles ==
    {PolicyCsv({"reference", "reference2", "reference3", "reference4"}, MaxPolicies),
     PolicyCsv({"reference", "reference2", "reference4"}, MaxPolicies)}

PipelineInit ==
    /\ RetryInit({Full, Simple}, LongCsvFiles)
    /\ ScrapeInit(PolicyFiles)
    /\ CatIdle /\ CanonIdle /\ ExtractIdle /\ AnalyzeIdle /\ CorpusIdle

PipelineNext ==
    \/ ProcessUrl("scripted")
    \/ ScrapeSave
    \/ spc = "done" /\ MainLoad
    \/ spc = "done" /\ RetryUrl("scripted")
    \/ spc = "done" /\ DownloadPdf("scripted")
    \/ spc = "done" /\ ScrapeHtmlSimple("scripted")
    \/ spc = "done" /\ ScrapeHtml("scripted")
    \/ spc = "done" /\ SeleniumFallback("scripted")
    \/ spc = "done" /\ RecordRow
    \/ spc = "done" /\ FinalSave
    \/ spc = "done" /\ Interrupt
    \/ spc = "done" /\ Restart

SpecPipeline == PipelineInit /\ [][PipelineNext]_vars

(***************************************************************************)
(* Claims                                                                  *)
(***************************************************************************)

\* C1: one top-level call of download_pdf or scrape_html (retries = 0) of
\* either retry script issues at most 1 + MAX_RETRIES = 4 cloudscraper GET
\* requests, whatever the sequence of failures.
C1_AtMostFourGets == gets <= MAX_RETRIES + 1

\* a call that failed after its fourth GET
C1_FourGetsThenFailure ==
    /\ pc = "record"
    /\ result.filetype = "None"
    /\ gets = MAX_RETRIES + 1

\* C2: in the retry main loop OUTPUT_CSV is written after the k-th processed
\* row exactly when k is a multiple of 25, and once more after the last row;
\* there is no other write during the loop.
C2_WritesAtCheckpoints ==
    LET everyN == [j \in 1..(pos \div CheckpointEvery) |-> j * CheckpointEvery]
    IN  IF pc = "done" /\ Len(df) > 0 /\ pos = Len(df)
        THEN writes = Append(everyN, Len(df))
        ELSE writes = everyN

\* a run over more than 25 rows has ended: one checkpoint and the final save
C2_CheckpointThenFinalSave ==
    /\ pc = "done"
    /\ Len(writes) = 2
    /\ writes[1] = CheckpointEvery
    /\ writes[2] > CheckpointEvery

\* C3 as claimed: when the script is started again after an interruption,
\* the rows the checkpoint records as SUCCESS are not fetched again and keep
\* their recorded retry_status.
C3_ResumesFromCheckpoint ==
    \A j \in DOMAIN prior :
        prior[j].retry_status = "SUCCESS" =>
            /\ \A k \in DOMAIN handled : handled[k] # prior[j].src
            /\ \A i \in DOMAIN df :
                   df[i].src = prior[j].src => df[i].retry_status = "SUCCESS"

\* C3 as amended: a run reads FAILED_CSV only; whatever the checkpoint on
\* disk holds, every row not yet processed in this run has an empty
\* retry_status, and a run that reaches the end has fetched every row of its
\* dataframe.
C3_StartsOver ==
    /\ \A i \in DOMAIN df : i > pos => df[i].retry_status = ""
    /\ (pc = "done" /\ pos = Len(df)) =>
           \A i \in DOMAIN df : \E k \in DOMAIN handled : handled[k] = df[i].src

\* the second run has ended and fetched a row the checkpoint held as SUCCESS
C3_RefetchedASuccess ==
    /\ run > 1
    /\ pc = "done"
    /\ \E j \in DOMAIN prior :
           /\ prior[j].retry_status = "SUCCESS"
           /\ \E k \in DOMAIN handled : handled[k] = prior[j].src

\* C4 as claimed: a fetch that failed with a permanent class (404 Not Found,
\* 401 Unauthorized) is not attempted again by the retry function.
C4_PermanentNotRetried ==
    (pc = "fetch" /\ call.retries > 0) =>
        categorize_error(lastOut.err) \notin {"404_Not_Found", "401_Unauthorized"}

\* C4 as amended: the retry function does not look at the class of the
\* failure; a call that ends in failure without Selenium having been called
\* has issued all 1 + MAX_RETRIES GETs, whatever the failures were.
C4_EveryClassRetried ==
    (pc = "record" /\ call.fn # "none" /\ result.filetype = "None" /\ sels = 0) =>
        gets = MAX_RETRIES + 1

\* a call has ended in a 404 after four GETs
C4_NotFoundRetriedThreeTimes ==
    /\ pc = "record"
    /\ call.retries = MAX_RETRIES
    /\ sels = 0
    /\ gets = MAX_RETRIES + 1
    /\ categorize_error(result.error) = "404_Not_Found"

\* C5: in retry_failed_urls.py scrape_with_selenium_fallback is called for a
\* URL only when, earlier in the same run, a cloudscraper GET for a URL of
\* the same domain ended in a challenge page or a failure.
C5_SeleniumOnlyAfterGet ==
    [][sels' > sels => get_domain(call.url) \in badGet]_vars

\* Selenium has been called for a URL no GET was issued for
C5_SeleniumWithoutOwnGet ==
    /\ pc = "record"
    /\ sels > 0
    /\ gets = 0

\* C6: SELENIUM_DOMAINS only grows during a run, and a scrape_html call for
\* a URL whose domain is in it goes straight to scrape_with_selenium_fallback
\* without a cloudscraper GET.
C6_DomainMemory ==
    [][ /\ SELENIUM_DOMAINS \subseteq SELENIUM_DOMAINS'
        /\ (pc = "fetch" /\ call.fn = "scrape_html"
                /\ get_domain(call.url) \in SELENIUM_DOMAINS)
           => (pc' = "selenium" /\ gets' = gets) ]_vars

\* scrape_html is about to call Selenium for a known domain, no GET issued
C6_StraightToSelenium ==
    /\ pc = "selenium"
    /\ call.via = "known"
    /\ gets = 0
    /\ get_domain(call.url) \in SELENIUM_DOMAINS

\* C7: the scraper loop and the retry loop handle each row exactly once, in
\* the order of the input file, and the scraper handles the reference
\* columns of a row in the order reference, reference2, reference3,
\* reference4 before it moves to the next row.
C7_RowsInCsvOrder ==
    LET started == IF pc \in {"fetch", "selenium", "record"} THEN pos + 1 ELSE pos
        cells == [n \in 1..(Len(policies.rows) * Len(REFERENCE_COLUMNS)) |->
                     << ((n - 1) \div Len(REFERENCE_COLUMNS)) + 1,
                        ((n - 1) % Len(REFERENCE_COLUMNS)) + 1 >>]
        before(c) == c[1] < at[1] \/ (c[1] = at[1] /\ c[2] < at[2])
        due(c) == before(c) /\ REFERENCE_COLUMNS[c[2]] \in policies.cols
    IN  /\ Len(handled) = started
        /\ \A k \in DOMAIN handled : handled[k] = df[k].src
        /\ \A i, j \in DOMAIN df : i < j => df[i].src < df[j].src
        /\ sHandled = SelectSeq(cells, due)
        /\ spc = "done" => Len(sHandled) = Len(policies.rows) * Cardinality(policies.cols)

\* the scraper and a retry run over more than 25 rows have both ended; the
\* scraper skipped a column its file does not have
C7_BothLoopsEnded ==
    /\ spc = "done"
    /\ Len(sHandled) > Len(REFERENCE_COLUMNS)
    /\ "reference3" \notin policies.cols
    /\ pc = "done"
    /\ Len(df) > CheckpointEvery
    /\ Len(handled) = Len(df)

\* C8: categorize_error returns, for every message, one label of a fixed
\* set: that of the first rule, in the written order, whose substrings occur
\* in the lower-cased message, and Other_Error when no rule matches.
C8_FirstMatchingRule ==
    LET rules ==
            << [label |-> "404_Not_Found", any |-> {<<"404">>, <<"not", "found">>}, all |-> {}],
               [label |-> "403_Forbidden", any |-> {<<"403">>, <<"forbidden">>}, all |-> {}],
               [label |-> "401_Unauthorized", any |-> {<<"401">>, <<"unauthorized">>}, all |-> {}],
               [label |-> "500_Server_Error",
                any |-> {<<"500">>, <<"internal", "server", "error">>}, all |-> {}],
               [label |-> "502_Bad_Gateway", any |-> {<<"502">>, <<"bad", "gateway">>}, all |-> {}],
               [label |-> "503_Service_Unavailable",
                any |-> {<<"503">>, <<"service", "unavailable">>}, all |-> {}],
               [label |-> "Timeout", any |-> {<<"timeout">>, <<"timed", "out">>}, all |-> {}],
               [label |-> "Connection_Refused", any |-> {},
                all |-> {<<"connection">>, <<"refused">>}],
               [label |-> "Connection_Error", any |-> {<<"connection">>}, all |-> {}],
               [label |-> "SSL_Certificate_Error", any |-> {<<"ssl">>, <<"certificate">>},
                all |-> {}],
               [label |-> "Too_Many_Redirects", any |-> {},
                all |-> {<<"redirect">>, <<"too", "many">>}],
               [label |-> "DNS_Error", any |-> {<<"dns">>, <<"name", "resolution">>}, all |-> {}],
               [label |-> "Max_Retries_Exceeded", any |-> {<<"max", "retries">>}, all |-> {}],
               [label |-> "Read_Timeout", any |-> {<<"read", "timed", "out">>}, all |-> {}] >>
        low == Lower(errMsg)
        matches(r) ==
            IF r.all # {} THEN \A kw \in r.all : Contains(low, kw)
            ELSE \E kw \in r.any : Contains(low, kw)
        hits == {i \in DOMAIN rules : matches(rules[i])}
    IN  category # "idle" =>
            IF hits = {} THEN category = "Other_Error"
            ELSE \E i \in hits : (\A j \in hits : i <= j) /\ category = rules[i].label

\* a message with "connection" and "refused" in it, which two rules match
C8_ConnectionRefused ==
    /\ Contains(Lower(errMsg), <<"connection">>)
    /\ Contains(Lower(errMsg), <<"refused">>)
    /\ category = "Connection_Refused"

\* C9 as claimed: whenever the body of the response scrape_html got contains
\* a challenge marker, scrape_html switches to the Selenium fallback and the
\* domain is in SELENIUM_DOMAINS, whatever the HTTP status of the response.
C9_MarkerSwitchesWhateverStatus ==
    (/\ script = Full
     /\ call.fn = "scrape_html"
     /\ lastGet.kind = "resp"
     /\ \E marker \in ChallengeMarkers : Contains(lastGet.body, marker))
    => (pc = "selenium" /\ get_domain(call.url) \in SELENIUM_DOMAINS)

\* C9 as amended: whenever the response scrape_html got has a status below
\* 400 and a body with a challenge marker, scrape_html switches to the
\* Selenium fallback and the domain is in SELENIUM_DOMAINS.
C9_MarkerSwitchesWhenStatusOk ==
    (/\ script = Full
     /\ call.fn = "scrape_html"
     /\ lastGet.kind = "resp"
     /\ lastGet.status < 400
     /\ \E marker \in ChallengeMarkers : Contains(lastGet.body, marker))
    => (pc = "selenium" /\ call.via = "try"
        /\ get_domain(call.url) \in SELENIUM_DOMAINS)

\* a retry of scrape_html got a page with the second marker and switched
C9_SwitchedOnARetry ==
    /\ pc = "selenium"
    /\ call.via = "try"
    /\ call.retries > 0
    /\ Contains(lastGet.body, <<"Checking", "your", "browser">>)

C11_DistinctHostsDistinctCanonical ==
    LET hostA == Lower(urlA.host)
        hostB == Lower(urlB.host)
        onlyWww == hostA = hostB \/ hostA = Www \o hostB \/ hostB = Www \o hostA
    IN  (urlA # <<>> /\ urlA.auth /\ urlB.auth /\ ~onlyWww) => canonA # canonB

\* C12: the generated retry script lists exactly the failed records whose
\* error_category is not 404_Not_Found, 403_Forbidden or 401_Unauthorized, in
\* the order of the failed-URL list.
C12_RetryScriptLists ==
    retry_script.written =>
        LET listed == retry_script.RETRY_URLS
            permanent(r) ==
                categorize_error(r.error) \in
                    {"404_Not_Found", "403_Forbidden", "401_Unauthorized"}
        IN  /\ \A k \in DOMAIN listed :
                   /\ listed[k].policy_id \in DOMAIN failed_urls
                   /\ listed[k] = failed_urls[listed[k].policy_id]
                   /\ ~permanent(listed[k])
            /\ \A i \in DOMAIN failed_urls :
                   ~permanent(failed_urls[i]) =>
                       \E k \in DOMAIN listed : listed[k].policy_id = i
            /\ \A k, l \in DOMAIN listed :
                   k < l => listed[k].policy_id < listed[l].policy_id

\* a script was written that lists some records and leaves out others
C12_SomeListedSomeNot ==
    /\ retry_script.written
    /\ Len(retry_script.RETRY_URLS) >= 2
    /\ Len(retry_script.RETRY_URLS) < Len(failed_urls)

\* C13: an error whose message contains "read timed out" is categorized as
\* Read_Timeout.
C13_ReadTimedOutIsReadTimeout ==
    (category # "idle" /\ Contains(Lower(errMsg), <<"read", "timed", "out">>))
        => category = "Read_Timeout"

\* C14: for every reference column that exists, analyze_references reads
\* the error column ref{i}_error the scraper wrote for that column: the
\* errors of the i-th reference column are in its error analysis.
C14_ReadsEveryErrorColumn ==
    apc = "done" =>
        \A i \in DOMAIN REFERENCE_COLUMNS :
            (/\ REFERENCE_COLUMNS[i] \in policies.cols
             /\ \E k \in DOMAIN policiesOut : policiesOut[k][i].error # NoError)
            => /\ ErrorColumnWritten(i) \in DOMAIN error_analysis
               /\ error_analysis[ErrorColumnWritten(i)] = value_counts(policiesOut, i)

\* C15: when the failed-URL CSV lacks any of the required columns
\* policy_id, ref_number or url, main of retry_failed_urls.py returns before
\* it fetches any URL and before it writes OUTPUT_CSV.
C15_MissingColumnsNothingDone ==
    (/\ script = Full
     /\ csv.exists
     /\ \E col \in {"policy_id", "ref_number", "url"} : col \notin csv.cols)
    => /\ pc \in {"start", "done"}
       /\ handled = <<>>
       /\ gets = 0
       /\ sels = 0
       /\ files = {}
       /\ writes = <<>>
       /\ outCsv = <<>>

\* main has returned on a file without the url column
C15_ReturnedOnMissingUrl ==
    /\ script = Full
    /\ csv.exists
    /\ "url" \notin csv.cols
    /\ pc = "done"

\* C16: during one retry_url call scrape_with_selenium_fallback is called
\* at most once, for every sequence of cloudscraper and Selenium outcomes.
C16_SeleniumAtMostOnce == sels <= 1

\* C17 as claimed: SELENIUM_DOMAINS contains only domains for which a
\* cloudscraper response was a challenge page or a 403/Forbidden failure: a
\* domain enters the set only on such a response.
C17_OnlyChallengeOr403 ==
    [][\A d \in SELENIUM_DOMAINS' \ SELENIUM_DOMAINS :
          /\ d = get_domain(call.url)
          /\ lastGet'.kind = "resp"
          /\ \/ \E marker \in ChallengeMarkers : Contains(lastGet'.body, marker)
             \/ lastGet'.status = 403]_vars

\* C17 as amended: a domain enters SELENIUM_DOMAINS only on a cloudscraper
\* GET for it that returned a challenge page with a status below 400, or
\* that failed at the first attempt (retries = 0) with a message containing
\* 403, forbidden, cloudflare or blocked; the latter includes a page that is
\* no challenge page but has less than 100 characters of text ("Content too
\* short, might be blocked").
C17_OnlyChallengeOrBlockedMessage ==
    [][\A d \in SELENIUM_DOMAINS' \ SELENIUM_DOMAINS :
          LET g == lastGet'
              challenge == \E marker \in ChallengeMarkers : Contains(g.body, marker)
              blocked(msg) ==
                  \E kw \in {<<"403">>, <<"forbidden">>, <<"cloudflare">>, <<"blocked">>} :
                      Contains(Lower(msg), kw)
          IN  /\ d = get_domain(call.url)
              /\ pc = "fetch"
              /\ \/ g.kind = "resp" /\ g.status < 400 /\ challenge
                 \/ /\ call.retries = 0
                    /\ \/ g.kind = "exc" /\ blocked(g.msg)
                       \/ g.kind = "resp" /\ g.status = 403
                       \/ /\ g.kind = "resp" /\ g.status < 400 /\ ~challenge
                          /\ g.textLen < MinTextLen]_vars

\* a domain has entered the set on a page that is no challenge page but short
C17_ShortPageDomain ==
    /\ pc = "selenium"
    /\ call.via = "except"
    /\ lastGet.kind = "resp"
    /\ lastGet.status = 200
    /\ lastGet.body = BodyDocument
    /\ lastGet.textLen < MinTextLen
    /\ get_domain(call.url) \in SELENIUM_DOMAINS

\* C18: a row the retry scripts report SUCCESS with type html has a saved
\* text of at least 100 characters; no text file shorter than that is
\* written.
C18_SavedTextLongEnough ==
    /\ \A f \in files : f.name[3] = "html" => f.textLen >= 100
    /\ \A i \in DOMAIN df :
           (df[i].retry_status = "SUCCESS" /\ df[i].retry_type = "html") =>
               \E f \in files :
                   /\ f.name = <<csv.rows[df[i].src].policy_id,
                                 csv.rows[df[i].src].ref_number, "html">>
                   /\ f.textLen >= 100

\* a run has ended with one text saved by cloudscraper and one by Selenium
C18_BothClientsSaved ==
    /\ pc = "done"
    /\ \E f \in files : f.name[3] = "html" /\ f.by = "cloudscraper"
    /\ \E f \in files : f.name[3] = "html" /\ f.by = "selenium"

\* C19: in retry_url a HEAD request that raises does not make the URL
\* fail: the URL is then taken as HTML and scrape_html is called; the type
\* is pdf only when the path ends in .pdf or the content-type HEAD gave
\* contains "pdf".
C19_HeadFailureMeansHtml ==
    (pc \in {"fetch", "selenium", "record"} /\ call.fn # "none") =>
        LET pdfPath == EndsWith(Lower(urlparse(call.url).path), <<".", "p", "d", "f">>)
        IN  /\ call.head = "raises" => (call.fn = "scrape_html" /\ call.name[3] = "html")
            /\ call.fn = "download_pdf" <=> (pdfPath \/ call.head = "application/pdf")
            /\ call.name[3] = "pdf" <=> (pdfPath \/ call.head = "application/pdf")
            /\ (pc = "record" /\ result.filetype # "None") =>
                   result.filetype = call.name[3]

\* HEAD raised and the URL was scraped as HTML all the same
C19_HeadRaisedHtmlSaved ==
    /\ pc = "record"
    /\ call.head = "raises"
    /\ result.filetype = "html"

\* C20: in asdfhjhjh.py, after the corpus has been loaded, bad_files holds
\* the name of every PDF whose parsing raised an exception during loading.
C20_BadPdfsRecorded ==
    cpc = "loaded" =>
        \A i \in DOMAIN corpus :
            (corpus[i].suffix = ".pdf" /\ corpus[i].raises) =>
                \E k \in DOMAIN bad_files : bad_files[k] = corpus[i].name

====
